---- MODULE Spec2Model ----
(***************************************************************************)
(* Model of layer4/listener.go: the accept loop, the per-connection        *)
(* handle goroutine, the hand-off channel connChan with pipeConnection,    *)
(* the drain watcher and the wrapper listener's Accept.                    *)
(*                                                                         *)
(* Every goroutine is a process with a program counter; one action is one  *)
(* atomic step on shared state (channel operation, WaitGroup operation,    *)
(* pool operation, Close) together with the local code around it.          *)
(***************************************************************************)
EXTENDS Integers, Sequences, FiniteSets, TLC

\* ---------------------------------------------------------------- bounds
\* number of connections the raw listener yields at most
MaxConns == 3
\* the same, in the specification with fairness
LiveConns == 2
\* capacity of connChan: runtime.GOMAXPROCS(0) at WrapListener time
Capacity == 1

Conns == 1 .. MaxConns
Buffers == 1 .. MaxConns

\* ---------------------------------------------------------------- values
NoConn == 0
NoBuf == 0
NilErr == "nil"
errHijacked == "errHijacked"
errOther == "errOther"
\* non-temporary errors of the raw listener's Accept
FatalErrs == {"errClosed", "errFatal"}
\* outcome of lines 100-105 and 192-221 for a freshly accepted connection: it
\* is no tcpConnection; setKeepAliveWorkarround returns nil; it returns an
\* error; the connection is a tcpConnection but no *net.TCPConn, and the
\* unchecked type assertion of line 193 panics
KeepAliveOutcomes == {"notTCP", "ok", "failed", "panic"}
\* values of the variable "tls_connection_states": absent/empty, one, two states
TLSStateSeqs == {<< >>, <<"s1">>, <<"s1", "s2">>}

VARIABLES
  loopPc,      \* position of the goroutine running listener.loop
  conn,        \* loop's local conn: just accepted, or just received by the drain
  kaErr,       \* loop's local err after the keepalive attempt
  accepted,    \* number of connections the raw listener has returned
  incoming,    \* number of connections the raw listener will yield at most
  err,         \* listener.err
  wg,          \* listener.wg counter
  connChan,    \* listener.connChan buffer
  chanClosed,  \* close(l.connChan) has executed
  watcherPc,   \* position of the goroutine of lines 113-116
  hpc,         \* position of handle(c), per connection
  herr,        \* handle's local err, per connection
  hbuf,        \* handle's local buf, which the connection context cx wraps
  pool,        \* buffers currently inside bufPool
  allocated,   \* buffers bufPool's New has created so far
  sent,        \* connections that were sent on connChan
  recvBy,      \* per connection: receivers that took it from connChan, in order
  closedBy,    \* per connection: pump goroutines that called Close on it, in order
  acceptErr,   \* error of the last wrapper Accept that returned no connection
  deliverErr,  \* error of the last wrapper Accept that returned a connection
  panicked     \* a send on the closed connChan has happened

vars == << loopPc, conn, kaErr, accepted, incoming, err, wg, connChan, chanClosed,
           watcherPc, hpc, herr, hbuf, pool, allocated, sent, recvBy,
           closedBy, acceptErr, deliverErr, panicked >>

\* an unrecovered panic in the loop goroutine has ended the process
Crashed == loopPc = "panic"

loopVars == << loopPc, conn, kaErr, accepted, incoming, err >>
handleVars == << hpc, herr, hbuf, pool, allocated >>
histVars == << sent, recvBy, closedBy, acceptErr, deliverErr, panicked >>

\* ------------------------------------------------------------------ Init
\* WrapListener: empty channel, zero WaitGroup, no error, loop just started;
\* n connections are on their way to the raw listener.
InitWith(n) ==
  /\ incoming = n
  /\ loopPc = "accept"
  /\ conn = NoConn
  /\ kaErr = "none"
  /\ accepted = 0
  /\ err = NilErr
  /\ wg = 0
  /\ connChan = << >>
  /\ chanClosed = FALSE
  /\ watcherPc = "notStarted"
  /\ hpc = [c \in Conns |-> "notStarted"]
  /\ herr = [c \in Conns |-> NilErr]
  /\ hbuf = [c \in Conns |-> NoBuf]
  /\ pool = {}
  /\ allocated = 0
  /\ sent = {}
  /\ recvBy = [c \in Conns |-> << >>]
  /\ closedBy = [c \in Conns |-> << >>]
  /\ acceptErr = "none"
  /\ deliverErr = "none"
  /\ panicked = FALSE

Init == InitWith(MaxConns)

LiveInit == InitWith(LiveConns)

\* ------------------------------------------------------- listener.loop
\* variant: the loop takes the next connection only when no handler is busy
LoopAcceptConn_WaitsForHandlers ==
  /\ loopPc = "accept"
  /\ accepted < incoming
  /\ \A c \in Conns : hpc[c] \notin {"chain", "pipe"}
  /\ \E ka \in KeepAliveOutcomes :
       /\ kaErr' = ka
       /\ loopPc' = IF ka = "panic" THEN "panic" ELSE "add"
  /\ accepted' = accepted + 1
  /\ conn' = accepted + 1
  /\ UNCHANGED << incoming, err, wg, connChan, chanClosed, watcherPc >>
  /\ UNCHANGED << handleVars, histVars >>

\* lines 91, 100-105, 192-221: the raw Accept returns a connection; the
\* keepalive workaround is attempted when the connection is a tcpConnection;
\* an error it returns is only logged, a panic in it ends the process.
LoopAcceptConn ==
  /\ loopPc = "accept"
  /\ accepted < incoming
  /\ \E ka \in KeepAliveOutcomes :
       /\ kaErr' = ka
       /\ loopPc' = IF ka = "panic" THEN "panic" ELSE "add"
  /\ accepted' = accepted + 1
  /\ conn' = accepted + 1
  /\ UNCHANGED << incoming, err, wg, connChan, chanClosed, watcherPc >>
  /\ UNCHANGED << handleVars, histVars >>

\* variant: a temporary error ends the loop like any other error
LoopAcceptTemporary_Break ==
  /\ loopPc = "accept"
  /\ err' = "errTemporary"
  /\ loopPc' = "break"
  /\ UNCHANGED << conn, kaErr, accepted, incoming, wg, connChan, chanClosed, watcherPc >>
  /\ UNCHANGED << handleVars, histVars >>

\* lines 91-92: the raw Accept returns a temporary net.Error.
LoopAcceptTemporary ==
  /\ loopPc = "accept"
  /\ loopPc' = "logTemporary"
  /\ UNCHANGED << conn, kaErr, accepted, incoming, err, wg, connChan, chanClosed, watcherPc >>
  /\ UNCHANGED << handleVars, histVars >>

\* lines 93-94: the error is logged and the loop continues with the next Accept.
LoopContinue ==
  /\ loopPc = "logTemporary"
  /\ loopPc' = "accept"
  /\ UNCHANGED << conn, kaErr, accepted, incoming, err, wg, connChan, chanClosed, watcherPc >>
  /\ UNCHANGED << handleVars, histVars >>

\* variant: the loop ends without recording the error
LoopAcceptFatal_NoRecord ==
  /\ loopPc = "accept"
  /\ loopPc' = "break"
  /\ UNCHANGED << conn, kaErr, accepted, incoming, err, wg, connChan, chanClosed, watcherPc >>
  /\ UNCHANGED << handleVars, histVars >>

\* lines 96-99: any other error is recorded in l.err and ends the for loop.
LoopAcceptFatal ==
  /\ loopPc = "accept"
  /\ \E e \in FatalErrs : err' = e
  /\ loopPc' = "break"
  /\ UNCHANGED << conn, kaErr, accepted, incoming, wg, connChan, chanClosed, watcherPc >>
  /\ UNCHANGED << handleVars, histVars >>

\* line 108: l.wg.Add(1)
LoopAdd ==
  /\ loopPc = "add"
  /\ wg' = wg + 1
  /\ loopPc' = "spawn"
  /\ UNCHANGED << conn, kaErr, accepted, incoming, err, connChan, chanClosed, watcherPc >>
  /\ UNCHANGED << handleVars, histVars >>

\* line 109: go l.handle(conn), then back to the top of the for loop.
LoopSpawn ==
  /\ loopPc = "spawn"
  /\ hpc' = [hpc EXCEPT ![conn] = "spawned"]
  /\ conn' = NoConn
  /\ kaErr' = "none"
  /\ loopPc' = "accept"
  /\ UNCHANGED << accepted, incoming, err, wg, connChan, chanClosed, watcherPc >>
  /\ UNCHANGED << herr, hbuf, pool, allocated, histVars >>

\* line 113: the drain watcher goroutine is started.
LoopSpawnWatcher ==
  /\ loopPc = "break"
  /\ watcherPc' = "wait"
  /\ loopPc' = "drain"
  /\ UNCHANGED << conn, kaErr, accepted, incoming, err, wg, connChan, chanClosed >>
  /\ UNCHANGED << handleVars, histVars >>

\* variant: the loop starts draining only once the channel is closed
LoopDrainRecv_AfterClose ==
  /\ loopPc = "drain"
  /\ chanClosed
  /\ Len(connChan) > 0
  /\ conn' = Head(connChan).Conn
  /\ connChan' = Tail(connChan)
  /\ recvBy' = [recvBy EXCEPT ![Head(connChan).Conn] = Append(@, "loop")]
  /\ loopPc' = "drainClose"
  /\ UNCHANGED << kaErr, accepted, incoming, err, wg, chanClosed, watcherPc >>
  /\ UNCHANGED << handleVars, sent, closedBy, acceptErr, deliverErr, panicked >>

\* line 117: the range receives the next queued connection.
LoopDrainRecv ==
  /\ loopPc = "drain"
  /\ Len(connChan) > 0
  /\ conn' = Head(connChan).Conn
  /\ connChan' = Tail(connChan)
  /\ recvBy' = [recvBy EXCEPT ![Head(connChan).Conn] = Append(@, "loop")]
  /\ loopPc' = "drainClose"
  /\ UNCHANGED << kaErr, accepted, incoming, err, wg, chanClosed, watcherPc >>
  /\ UNCHANGED << handleVars, sent, closedBy, acceptErr, deliverErr, panicked >>

\* line 118: conn.Close() on the received connection.
LoopDrainClose ==
  /\ loopPc = "drainClose"
  /\ closedBy' = [closedBy EXCEPT ![conn] = Append(@, "loop")]
  /\ conn' = NoConn
  /\ loopPc' = "drain"
  /\ UNCHANGED << kaErr, accepted, incoming, err, wg, connChan, chanClosed, watcherPc >>
  /\ UNCHANGED << handleVars, sent, recvBy, acceptErr, deliverErr, panicked >>

\* line 117: the range ends when the channel is closed and empty; loop returns.
LoopDrainEnd ==
  /\ loopPc = "drain"
  /\ Len(connChan) = 0
  /\ chanClosed
  /\ loopPc' = "done"
  /\ UNCHANGED << conn, kaErr, accepted, incoming, err, wg, connChan, chanClosed, watcherPc >>
  /\ UNCHANGED << handleVars, histVars >>

\* -------------------------------------------------------- drain watcher
\* variant: the watcher closes without waiting for the handlers
WatcherWait_NoWait ==
  /\ watcherPc = "wait"
  /\ watcherPc' = "close"
  /\ UNCHANGED << loopVars, wg, connChan, chanClosed, handleVars, histVars >>

\* line 114: l.wg.Wait() returns once the counter is zero.
WatcherWait ==
  /\ watcherPc = "wait"
  /\ wg = 0
  /\ watcherPc' = "close"
  /\ UNCHANGED << loopVars, wg, connChan, chanClosed, handleVars, histVars >>

\* line 115: close(l.connChan)
WatcherClose ==
  /\ watcherPc = "close"
  /\ chanClosed' = TRUE
  /\ watcherPc' = "done"
  /\ UNCHANGED << loopVars, wg, connChan, handleVars, histVars >>

\* ------------------------------------------------------ listener.handle
\* bufPool.Get: an arbitrary buffer of the pool, or a new one from New
\* (sync.Pool may treat the pool as empty).
GetChoices ==
  pool \cup {allocated + 1}

\* lines 134-139: Get a buffer, Reset it, wrap the connection around it.
HandleGet(c) ==
  /\ ~Crashed
  /\ hpc[c] = "spawned"
  /\ \E b \in GetChoices :
       /\ hbuf' = [hbuf EXCEPT ![c] = b]
       /\ pool' = pool \ {b}
       /\ allocated' = IF b \in pool THEN allocated ELSE allocated + 1
  /\ hpc' = [hpc EXCEPT ![c] = "chain"]
  /\ UNCHANGED << loopVars, wg, connChan, chanClosed, watcherPc >>
  /\ UNCHANGED << herr, histVars >>

\* line 142: the handler chain returns without piping, with nil or an error.
ChainReturn(c) ==
  /\ ~Crashed
  /\ hpc[c] = "chain"
  /\ \E e \in {NilErr, errOther} : herr' = [herr EXCEPT ![c] = e]
  /\ hpc' = [hpc EXCEPT ![c] = "returned"]
  /\ UNCHANGED << loopVars, wg, connChan, chanClosed, watcherPc >>
  /\ UNCHANGED << hbuf, pool, allocated, histVars >>

\* line 142: the handler chain calls pipeConnection on the connection context.
ChainPipe(c) ==
  /\ ~Crashed
  /\ hpc[c] = "chain"
  /\ hpc' = [hpc EXCEPT ![c] = "pipe"]
  /\ UNCHANGED << loopVars, wg, connChan, chanClosed, watcherPc >>
  /\ UNCHANGED << herr, hbuf, pool, allocated, histVars >>

\* variant: the carrier exposes the first state of the sequence
PipeValue_First(c, states) ==
  IF Len(states) > 0
    THEN [kind |-> "tlsConnection", Conn |-> c, tlsStates |-> states,
          connState |-> states[1]]
    ELSE [kind |-> "Connection", Conn |-> c, tlsStates |-> states,
          connState |-> "none"]

\* lines 171-178: the value pipeConnection sends for the connection context
\* of c whose variable "tls_connection_states" holds states (tlsStates is
\* that variable of the context, which travels with it).
PipeValue(c, states) ==
  IF Len(states) > 0
    THEN [kind |-> "tlsConnection", Conn |-> c, tlsStates |-> states,
          connState |-> states[Len(states)]]
    ELSE [kind |-> "Connection", Conn |-> c, tlsStates |-> states,
          connState |-> "none"]

\* variant: the send never blocks
CanSend_Unbounded ==
  TRUE

\* lines 172/177: the send proceeds when the buffer has room.
CanSend ==
  Len(connChan) < Capacity

\* lines 167-179: pipeConnection reads "tls_connection_states" and sends
\* (a send on a closed channel panics), then returns errHijacked, which the
\* chain returns to handle.
PipeSend(c) ==
  /\ ~Crashed
  /\ hpc[c] = "pipe"
  /\ IF chanClosed
       THEN /\ panicked' = TRUE
            /\ hpc' = [hpc EXCEPT ![c] = "panic"]
            /\ UNCHANGED << connChan, sent, herr >>
       ELSE /\ CanSend
            /\ \E st \in TLSStateSeqs : connChan' = Append(connChan, PipeValue(c, st))
            /\ sent' = sent \cup {c}
            /\ herr' = [herr EXCEPT ![c] = errHijacked]
            /\ hpc' = [hpc EXCEPT ![c] = "returned"]
            /\ UNCHANGED panicked
  /\ UNCHANGED << loopVars, wg, chanClosed, watcherPc >>
  /\ UNCHANGED << hbuf, pool, allocated, recvBy, closedBy, acceptErr, deliverErr >>

\* variant: the buffer of a hijacked connection is not returned
HandlePut_SkipHijacked(c) ==
  /\ ~Crashed
  /\ hpc[c] = "returned"
  /\ pool' = IF herr[c] = errHijacked THEN pool ELSE pool \cup {hbuf[c]}
  /\ hpc' = [hpc EXCEPT ![c] = "put"]
  /\ UNCHANGED << loopVars, wg, connChan, chanClosed, watcherPc >>
  /\ UNCHANGED << herr, hbuf, allocated, histVars >>

\* lines 143-153 and the deferred line 136: logging, then bufPool.Put(buf).
HandlePut(c) ==
  /\ ~Crashed
  /\ hpc[c] = "returned"
  /\ pool' = pool \cup {hbuf[c]}
  /\ hpc' = [hpc EXCEPT ![c] = "put"]
  /\ UNCHANGED << loopVars, wg, connChan, chanClosed, watcherPc >>
  /\ UNCHANGED << herr, hbuf, allocated, histVars >>

\* deferred line 128: l.wg.Done()
HandleDone(c) ==
  /\ ~Crashed
  /\ hpc[c] = "put"
  /\ wg' = wg - 1
  /\ hpc' = [hpc EXCEPT ![c] = "wgDone"]
  /\ UNCHANGED << loopVars, connChan, chanClosed, watcherPc >>
  /\ UNCHANGED << herr, hbuf, pool, allocated, histVars >>

\* variant: the deferred function closes only after a handler error
ShouldClose_OnError(e) ==
  e = errOther

\* variant: the deferred function closes unconditionally
ShouldClose_Always(e) ==
  TRUE

\* variant: the deferred function tests err != nil instead of the marker
ShouldClose_NonNil(e) ==
  e # NilErr

\* deferred line 129: the decision to close.
ShouldClose(e) ==
  e # errHijacked

\* deferred lines 129-131: conn.Close() unless hijacked; the goroutine ends
\* and its locals with it (a hijacked connection context keeps its buffer).
HandleClose(c) ==
  /\ ~Crashed
  /\ hpc[c] = "wgDone"
  /\ closedBy' = [closedBy EXCEPT ![c] = IF ShouldClose(herr[c]) THEN Append(@, "handle") ELSE @]
  /\ hbuf' = [hbuf EXCEPT ![c] = IF ShouldClose(herr[c]) THEN NoBuf ELSE @]
  /\ herr' = [herr EXCEPT ![c] = NilErr]
  /\ hpc' = [hpc EXCEPT ![c] = "exited"]
  /\ UNCHANGED << loopVars, wg, connChan, chanClosed, watcherPc >>
  /\ UNCHANGED << pool, allocated, sent, recvBy, acceptErr, deliverErr, panicked >>

\* ------------------------------------------------------ listener.Accept
\* variant: Accept returns the head of the queue without removing it
AcceptConn_Peek ==
  /\ ~Crashed
  /\ Len(connChan) > 0
  /\ recvBy' = [recvBy EXCEPT ![Head(connChan).Conn] = Append(@, "Accept")]
  /\ deliverErr' = NilErr
  /\ UNCHANGED << loopVars, wg, connChan, chanClosed, watcherPc >>
  /\ UNCHANGED << handleVars, sent, closedBy, acceptErr, panicked >>

\* lines 157-159: a queued connection is returned with a nil error.
AcceptConn ==
  /\ ~Crashed
  /\ Len(connChan) > 0
  /\ connChan' = Tail(connChan)
  /\ recvBy' = [recvBy EXCEPT ![Head(connChan).Conn] = Append(@, "Accept")]
  /\ deliverErr' = NilErr
  /\ UNCHANGED << loopVars, wg, chanClosed, watcherPc >>
  /\ UNCHANGED << handleVars, sent, closedBy, acceptErr, panicked >>

\* variant: Accept reports a clean close instead of the recorded error
AcceptErr_Nil ==
  /\ Len(connChan) = 0
  /\ chanClosed
  /\ acceptErr' = NilErr
  /\ UNCHANGED << loopVars, wg, connChan, chanClosed, watcherPc >>
  /\ UNCHANGED << handleVars, sent, recvBy, closedBy, deliverErr, panicked >>

\* line 160: on a closed and empty channel the call returns nil, l.err.
AcceptErr ==
  /\ Len(connChan) = 0
  /\ chanClosed
  /\ acceptErr' = err
  /\ UNCHANGED << loopVars, wg, connChan, chanClosed, watcherPc >>
  /\ UNCHANGED << handleVars, sent, recvBy, closedBy, deliverErr, panicked >>

\* ------------------------------------------------------------------ Next
Loop ==
  \/ LoopAcceptConn
  \/ LoopAcceptTemporary
  \/ LoopContinue
  \/ LoopAcceptFatal
  \/ LoopAdd
  \/ LoopSpawn
  \/ LoopSpawnWatcher
  \/ LoopDrainRecv
  \/ LoopDrainClose
  \/ LoopDrainEnd

Watcher ==
  \/ WatcherWait
  \/ WatcherClose

Handle(c) ==
  \/ HandleGet(c)
  \/ ChainReturn(c)
  \/ ChainPipe(c)
  \/ PipeSend(c)
  \/ HandlePut(c)
  \/ HandleDone(c)
  \/ HandleClose(c)

Accept ==
  \/ AcceptConn
  \/ AcceptErr

Next ==
  \/ Loop
  \/ Watcher
  \/ \E c \in Conns : Handle(c)
  \/ Accept

Spec == Init /\ [][Next]_vars

\* the scheduler runs every runnable goroutine, every handler chain returns,
\* and the consumer keeps calling Accept; the raw listener is not constrained.
LoopInternal ==
  \/ LoopContinue
  \/ LoopAdd
  \/ LoopSpawn
  \/ LoopSpawnWatcher
  \/ LoopDrainRecv
  \/ LoopDrainClose
  \/ LoopDrainEnd

\* the same without any promise that the consumer calls Accept
DrainSpec ==
  /\ LiveInit
  /\ [][Next]_vars
  /\ WF_vars(LoopInternal)
  /\ WF_vars(Watcher)
  /\ \A c \in Conns : WF_vars(Handle(c))

LiveSpec ==
  /\ LiveInit
  /\ [][Next]_vars
  /\ WF_vars(LoopInternal)
  /\ WF_vars(Watcher)
  /\ \A c \in Conns : WF_vars(Handle(c))
  /\ WF_vars(Accept)

\* ------------------------------------------------------------- helpers
Range(f) == {f[i] : i \in DOMAIN f}

Accepted == 1 .. accepted

ClosedByHandle(c) == "handle" \in Range(closedBy[c])

ClosedByLoop(c) == "loop" \in Range(closedBy[c])

DeliveredToConsumer(c) == "Accept" \in Range(recvBy[c])

LoopStopped == loopPc \in {"break", "drain", "drainClose", "done"}

\* ------------------------------------------------------------- claims

\* C1: a connection is never both closed by its handle goroutine and sent on
\* the hand-off channel, and once its handle goroutine has finished exactly
\* one of the two has happened.
C1_ExactlyOneOutcome ==
  \A c \in Conns :
    /\ ~(ClosedByHandle(c) /\ c \in sent)
    /\ hpc[c] = "exited" => (ClosedByHandle(c) \/ c \in sent)

C1_Witness ==
  \E c, d \in Conns :
    /\ hpc[c] = "exited" /\ c \in sent /\ ~ClosedByHandle(c)
    /\ hpc[d] = "exited" /\ d \notin sent /\ ClosedByHandle(d)

\* C2: no send on connChan happens after close(connChan): the send never
\* panics, and no pipeConnection call is pending once the channel is closed.
C2_NoSendAfterClose ==
  /\ ~panicked
  /\ chanClosed => \A c \in Conns : hpc[c] \notin {"chain", "pipe", "panic"}

C2_Witness ==
  /\ chanClosed
  /\ \E c \in sent : recvBy[c] = << "loop" >>
  /\ \E c \in sent : recvBy[c] = << "Accept" >>

\* C3: once the raw Accept has returned a fatal error e (recorded in l.err),
\* and handler chains return and the consumer keeps calling Accept, the
\* wrapper's Accept eventually returns e; with zero accepted connections the
\* channel closes empty and Accept returns e.
C3_AcceptReturnsFatal ==
  (err \in FatalErrs) ~> (acceptErr \in FatalErrs /\ acceptErr = err)

C3_Witness ==
  /\ accepted = 0
  /\ err \in FatalErrs
  /\ chanClosed
  /\ connChan = << >>
  /\ sent = {}
  /\ acceptErr = err

\* a connection still open on the pump's side: nobody closed it and the
\* consumer did not get it
OpenUndelivered(c) == closedBy[c] = << >> /\ ~DeliveredToConsumer(c)

\* C4: when the wrapper's Accept returns the terminal error, every accepted
\* connection has already been closed or delivered to the consumer.
C4_SettledAtTerminalError ==
  acceptErr # "none" => \A c \in Accepted : ~OpenUndelivered(c)

\* C5: the hand-off channel is closed only when the accept loop has stopped
\* and every spawned handle goroutine has completed; the watcher's Wait
\* returns only when no accepted connection's handle is pending or running.
C5_ClosedOnlyAfterHandlersDone ==
  /\ chanClosed => LoopStopped /\ \A c \in Accepted : hpc[c] = "exited"
  /\ watcherPc \in {"close", "done"} => \A c \in Accepted : hpc[c] = "exited"

\* C6 as stated: no pump goroutine ever calls Close on a connection that was
\* sent on the hand-off channel.
C6_PumpNeverClosesHijacked ==
  \A c \in sent : closedBy[c] = << >>

\* C6 as amended: a connection that was sent on the hand-off channel is never
\* closed by its handle goroutine; the pump closes it only in the accept
\* loop's drain after a fatal accept error, once, when the drain (and not the
\* consumer's Accept) received it from the channel.
C6_OnlyDrainClosesHijacked ==
  \A c \in sent :
    /\ ~ClosedByHandle(c)
    /\ closedBy[c] # << >> =>
         /\ closedBy[c] = << "loop" >>
         /\ recvBy[c] = << "loop" >>
         /\ err \in FatalErrs

C6_Witness ==
  /\ \E c \in sent : closedBy[c] = << "loop" >> /\ hpc[c] = "exited"
  /\ \E c \in sent : recvBy[c] = << "Accept" >> /\ hpc[c] = "exited" /\ closedBy[c] = << >>

\* C7: the channel never holds more than Capacity connections; a pipe that
\* finds it full stays blocked in that step, and a pipe ends only by
\* appending its connection, unclosed, and returning errHijacked.
C7_Backpressure ==
  [][ /\ Len(connChan') <= Capacity
      /\ \A c \in Conns : hpc[c] = "pipe" =>
            /\ Len(connChan) = Capacity => hpc'[c] = "pipe" /\ c \notin sent'
            /\ hpc'[c] # "pipe" =>
                  /\ hpc'[c] = "returned"
                  /\ herr'[c] = errHijacked
                  /\ Len(connChan') = Len(connChan) + 1
                  /\ connChan'[Len(connChan')].Conn = c
                  /\ closedBy'[c] = << >> ]_vars

C7_Witness ==
  /\ Len(connChan) = Capacity
  /\ \E c \in Conns : hpc[c] = "pipe"
  /\ Cardinality({c \in Conns : hpc[c] = "pipe"} \cup {connChan[i].Conn : i \in DOMAIN connChan}) = Capacity + 1

\* handle goroutines parked in the handler chain or in a send on a full channel
Blocked == {c \in Conns : hpc[c] = "chain" \/ (hpc[c] = "pipe" /\ Len(connChan) = Capacity)}

\* C8: as long as no fatal error occurred the accept loop's next step is
\* enabled whatever the handle goroutines and the channel are doing: it can
\* take the next raw connection, add to the wait-group and spawn.
C8_AcceptNeverStalls ==
  /\ (loopPc = "accept" /\ accepted < incoming) => ENABLED LoopAcceptConn
  /\ loopPc = "add" => ENABLED LoopAdd
  /\ loopPc = "spawn" => ENABLED LoopSpawn

C8_Witness ==
  /\ loopPc = "accept"
  /\ accepted < incoming
  /\ Len(connChan) = Capacity
  /\ \E c \in Blocked : hpc[c] = "pipe"
  /\ err = NilErr

\* the buffer the connection context of c reads through: WrapConnection
\* keeps the buffer it is given at line 138
CxBuf(c) == hbuf[c]

\* goroutines that can reach buffer b: a handle goroutine between Get and
\* Put, the consumer through a delivered connection context, the accept loop
\* through a context its drain has received and not yet closed
Holders(b) ==
  {<< "handle", c >> : c \in {d \in Conns : hbuf[d] = b /\ hpc[d] \in {"chain", "pipe", "returned"}}}
  \cup {<< "consumer", 0 >> : c \in {d \in Conns : CxBuf(d) = b /\ DeliveredToConsumer(d)}}
  \cup {<< "loop", 0 >> : c \in {d \in Conns : CxBuf(d) = b /\ loopPc = "drainClose" /\ conn = d}}

\* C9: every pooled buffer is held by at most one goroutine at a time.
C9_BufferSingleOwner ==
  \A b \in Buffers : Cardinality(Holders(b)) <= 1

\* buffers checked out of bufPool
Outstanding == allocated - Cardinality(pool)

\* C10 as stated: the checked-out count equals the number of handle
\* goroutines that acquired a buffer and have not yet exited.
C10_OutstandingEqualsRunning ==
  Outstanding = Cardinality({c \in Conns : hpc[c] \in {"chain", "pipe", "returned", "put", "wgDone"}})

\* C10 as amended: the checked-out count equals the number of handle
\* goroutines that acquired a buffer and have not yet run their deferred
\* bufPool.Put; it is zero once every spawned handle goroutine has run it,
\* in particular whenever the wait-group is zero after the loop stopped.
C10_OutstandingEqualsHolding ==
  /\ Outstanding = Cardinality({c \in Conns : hpc[c] \in {"chain", "pipe", "returned"}})
  /\ (\A c \in Conns : hpc[c] \in {"notStarted", "put", "wgDone", "exited"}) => Outstanding = 0
  /\ (LoopStopped /\ wg = 0) => Outstanding = 0

C10_Witness ==
  /\ LoopStopped
  /\ wg = 0
  /\ Outstanding = 0
  /\ allocated > 0
  /\ \E c \in Conns : hpc[c] = "exited" /\ c \in sent
  /\ \E c \in Conns : hpc[c] = "exited" /\ closedBy[c] = << "handle" >>
  /\ \E c \in Conns : hpc[c] = "wgDone"

\* the handle goroutine of c has finished and its chain never piped
DoneUnpiped(c) == hpc[c] = "exited" /\ c \notin sent

\* what holds of the connections the chain did not pipe: Accept never returns
\* them and their own handle goroutine closes them
UnpipedClosedByHandle ==
  \A c \in Conns : c \notin sent =>
    /\ recvBy[c] = << >>
    /\ DoneUnpiped(c) => closedBy[c] = << "handle" >>

\* C11 as stated: every piped connection that left the channel was returned
\* by the consumer's Accept, once and with a nil error; the others are never
\* returned and are closed by their own handle goroutine.
C11_PipedReturnedByAccept ==
  /\ \A c \in sent : recvBy[c] # << >> => recvBy[c] = << "Accept" >>
  /\ deliverErr \in {"none", NilErr}
  /\ UnpipedClosedByHandle

\* C11 as amended: a piped connection is returned by Accept at most once,
\* with a nil error, and nobody else receives it as long as no fatal accept
\* error occurred; after one the loop's drain may receive it instead, and
\* then Accept never returns it. The connections that were not piped are
\* never returned and are closed by their own handle goroutine.
C11_PipedReturnedAtMostOnce ==
  /\ \A c \in sent :
       /\ recvBy[c] \in {<< >>, << "Accept" >>, << "loop" >>}
       /\ recvBy[c] = << "loop" >> => err \in FatalErrs
  /\ deliverErr \in {"none", NilErr}
  /\ (\E c \in Conns : DeliveredToConsumer(c)) => deliverErr = NilErr
  /\ UnpipedClosedByHandle

\* three connections, the second piped and returned by Accept, the first and
\* the third closed by their handle goroutines
C11_Witness ==
  /\ accepted = 3
  /\ \A c \in {1, 2, 3} : hpc[c] = "exited"
  /\ sent = {2}
  /\ recvBy[2] = << "Accept" >>
  /\ deliverErr = NilErr
  /\ closedBy[1] = << "handle" >>
  /\ closedBy[3] = << "handle" >>
  /\ closedBy[2] = << >>

\* C12: the step in which pipeConnection sends connection c appends to the
\* channel a value around c that is a tlsConnection exposing the last state
\* of "tls_connection_states" when that sequence is non-empty and the plain
\* connection when it is absent or empty, and pipeConnection returns
\* errHijacked either way.
C12_CarrierExposesLastState ==
  [][ \A c \in Conns : (c \notin sent /\ c \in sent') =>
        LET e == connChan'[Len(connChan')]
            n == Len(e.tlsStates)
        IN /\ Len(connChan') = Len(connChan) + 1
           /\ e.Conn = c
           /\ herr'[c] = errHijacked
           /\ n > 0 => e.kind = "tlsConnection" /\ e.connState = e.tlsStates[n]
           /\ n = 0 => e.kind = "Connection" /\ e.connState = "none" ]_vars

C12_Witness ==
  \E i \in DOMAIN connChan :
    /\ connChan[i].tlsStates = << "s1", "s2" >>
    /\ connChan[i].kind = "tlsConnection"
    /\ connChan[i].connState = "s2"
    /\ herr[connChan[i].Conn] = errHijacked

\* C13: an Accept that returned no connection returned the non-nil error the
\* accept loop recorded, and did so on a closed and empty channel; the
\* channel is never closed while l.err is unset.
C13_TerminalErrorOnly ==
  /\ chanClosed => err \in FatalErrs
  /\ acceptErr # "none" =>
       /\ acceptErr \in FatalErrs
       /\ acceptErr = err
       /\ chanClosed
       /\ connChan = << >>

C13_Witness ==
  /\ acceptErr \in FatalErrs
  /\ \E c \in Conns : DeliveredToConsumer(c)
  /\ \E c \in Conns : ClosedByLoop(c)

\* number of Close calls the handle goroutine made on c
HandleCloses(c) == Cardinality({i \in DOMAIN closedBy[c] : closedBy[c][i] = "handle"})

\* C14: the step that ends handle(c) closes the connection exactly when the
\* chain's result is not errHijacked (nil and any other error alike), and
\* the handle goroutine closes nowhere else: one Close after it ended with
\* nil or an error, none after errHijacked.
C14_CloseUnlessHijacked ==
  [][ \A c \in Conns :
        /\ (hpc[c] = "wgDone" /\ hpc'[c] = "exited") =>
              /\ herr[c] \in {NilErr, errOther} => closedBy'[c] = Append(closedBy[c], "handle")
              /\ herr[c] = errHijacked => closedBy'[c] = closedBy[c]
        /\ hpc'[c] # "exited" => HandleCloses(c)' = 0
        /\ hpc'[c] = "exited" => HandleCloses(c)' = (IF c \in sent' THEN 0 ELSE 1) ]_vars

C14_Witness ==
  \E c, d, e \in Conns :
    /\ hpc[c] = "exited" /\ c \in sent /\ HandleCloses(c) = 0
    /\ hpc[d] = "exited" /\ d \notin sent /\ HandleCloses(d) = 1
    /\ hpc[e] = "wgDone" /\ herr[e] = errOther /\ HandleCloses(e) = 0

\* C15: the loop's step on a temporary accept error changes nothing but its
\* own position: no terminal error, no handle goroutine, wait-group, channel
\* and watcher untouched; from there it only goes back to Accept. l.err is
\* set, and accepting stops, only in the step for a non-temporary error.
C15_TemporaryErrorRetries ==
  [][ /\ (loopPc = "accept" /\ loopPc' = "logTemporary") =>
            UNCHANGED << err, accepted, conn, wg, connChan, chanClosed, watcherPc, hpc >>
      /\ (loopPc = "logTemporary" /\ loopPc' # "logTemporary") =>
            /\ loopPc' = "accept"
            /\ UNCHANGED << err, accepted, conn, wg, connChan, chanClosed, watcherPc, hpc >>
      /\ loopPc' = "logTemporary" => err' = NilErr /\ ~chanClosed' /\ watcherPc' = "notStarted"
      /\ err' # err => loopPc = "accept" /\ loopPc' = "break" /\ err' \in FatalErrs
      /\ LoopStopped' <=> err' \in FatalErrs ]_vars

C15_Witness ==
  /\ loopPc = "logTemporary"
  /\ wg > 0
  /\ Len(connChan) > 0
  /\ \E c \in Conns : hpc[c] = "chain"

\* C16: every accepted connection is on its way to its handle goroutine or
\* has been handed to it, whatever the keepalive attempt did, and the
\* keepalive attempt never stops the loop.
C16_EveryAcceptedDispatched ==
  /\ \A c \in Accepted : hpc[c] # "notStarted" \/ (conn = c /\ loopPc \in {"add", "spawn"})
  /\ ~Crashed

\* connections currently queued in the channel
Queued == {connChan[i].Conn : i \in DOMAIN connChan}

\* C17: the pump calls Close on a connection at most once, counting handle's
\* deferred Close and the loop's drain; a connection is sent at most once,
\* and one that left the channel was received by exactly one receiver, the
\* consumer's Accept or the drain, which alone may then close it.
C17_CloseAndReceiveOnce ==
  \A c \in Conns :
    /\ Len(closedBy[c]) <= 1
    /\ Len(recvBy[c]) <= 1
    /\ Cardinality({i \in DOMAIN connChan : connChan[i].Conn = c}) <= 1
    /\ c \in sent => (c \in Queued) # (Len(recvBy[c]) = 1)
    /\ c \notin sent => c \notin Queued /\ recvBy[c] = << >>
    /\ ClosedByLoop(c) => recvBy[c] = << "loop" >>

C17_Witness ==
  \E c, d, e \in Conns :
    /\ hpc[c] = "exited" /\ closedBy[c] = << "handle" >> /\ recvBy[c] = << >>
    /\ hpc[d] = "exited" /\ closedBy[d] = << "loop" >> /\ recvBy[d] = << "loop" >>
    /\ hpc[e] = "exited" /\ closedBy[e] = << >> /\ recvBy[e] = << "Accept" >>

\* the shutdown has completed: all handle goroutines are through, the channel
\* is closed and empty, what the drain received is closed, loop has returned
ShutdownComplete ==
  /\ loopPc = "done"
  /\ watcherPc = "done"
  /\ chanClosed
  /\ connChan = << >>
  /\ wg = 0
  /\ \A c \in Accepted : hpc[c] = "exited"
  /\ \A c \in sent : recvBy[c] = << "loop" >> => closedBy[c] = << "loop" >>

\* C18: after a fatal accept error the shutdown completes, whether or not
\* the consumer ever calls Accept again, provided the handler chains return.
C18_ShutdownWithoutConsumer ==
  (err \in FatalErrs) ~> ShutdownComplete

\* the shutdown completed, the consumer never received anything, and the
\* drain took two piped connections through a channel that holds Capacity
C18_Witness ==
  /\ ShutdownComplete
  /\ \A c \in Conns : ~DeliveredToConsumer(c)
  /\ deliverErr = "none"
  /\ acceptErr = "none"
  /\ Cardinality({c \in sent : closedBy[c] = << "loop" >>}) = Capacity + 1

TypeOK ==
  /\ loopPc \in {"accept", "logTemporary", "add", "spawn", "panic", "break", "drain", "drainClose", "done"}
  /\ conn \in Conns \cup {NoConn}
  /\ kaErr \in KeepAliveOutcomes \cup {"none"}
  /\ accepted \in 0 .. incoming
  /\ err \in FatalErrs \cup {NilErr}
  /\ wg \in 0 .. MaxConns
  /\ Len(connChan) <= Capacity
  /\ watcherPc \in {"notStarted", "wait", "close", "done"}
  /\ \A c \in Conns : hbuf[c] \in Buffers \cup {NoBuf}
  /\ \A c \in Conns : herr[c] \in {NilErr, errHijacked, errOther}
  /\ pool \subseteq Buffers
  /\ allocated \in 0 .. MaxConns
  /\ sent \subseteq Conns

====
